---- MODULE Spec2Model ----
(***************************************************************************)
(* Funding-rate dashboards: aave_hl_dashboard.py (script "aave") and       *)
(* dashboard.py (script "dash").  One render run of a script is a          *)
(* sequential pipeline: window-paginated fetch of the Hyperliquid funding  *)
(* history, then (aave) the lending-yield fetch, merge_data, the metric    *)
(* derivation and the statistics display, or (dash) the cursor-paginated   *)
(* Bitfinex fetch, the hourly grouping, the averages and the               *)
(* funding-difference join.                                                *)
(*                                                                         *)
(* Time is counted in ticks.  An absent value (NaN / None) is the empty    *)
(* sequence <<>>, a present value v is <<v>>.  A timestamp is a record     *)
(* [wall, tz]: the wall-clock reading and the zone it is tagged with       *)
(* ("naive" when untagged), as pandas keeps it.                            *)
(***************************************************************************)
EXTENDS Integers, Sequences, FiniteSets, TLC

VARIABLES
    script,              \* which of the two scripts runs
    pc,                  \* position of the run
    err,                 \* <<exception, function>> of an uncaught exception, or <<>>
    days,                \* the "Select Days" input
    hlData,              \* the funding history the Hyperliquid server holds
    endInclusive,        \* whether the server treats endTime as inclusive
    current_start_time,  \* cursor of the window-paginated loop
    final_df,            \* accumulator of the window-paginated loop
    hlReqs,              \* requests issued by fetch_hyperliquid_funding, in order
    hyperliquid_df,      \* what fetch_hyperliquid_funding returned
    bfxData,             \* the status history the Bitfinex server holds
    start_time,          \* cursor of the cursor-paginated loop
    all_data,            \* accumulator of the cursor-paginated loop
    bfxReqs,             \* requests issued by fetch_bitfinex_funding, in order
    bitfinex_df,         \* what fetch_bitfinex_funding returned
    aaveData,            \* the 'data' lists the lending-yield server answered with
    usdc_df,             \* AAVE USDC frame
    weth_df,             \* AAVE WETH frame
    merged_df,           \* result of merge_data / combined_df
    params,              \* the Leverage and LTV inputs
    display              \* what the presentation shows

vars == <<script, pc, err, days, hlData, endInclusive, current_start_time,
          final_df, hlReqs, hyperliquid_df, bfxData, start_time, all_data,
          bfxReqs, bitfinex_df, aaveData, usdc_df, weth_df, merged_df, params,
          display>>

hlVars == <<current_start_time, final_df, hlReqs>>
bfxVars == <<start_time, all_data, bfxReqs>>
envVars == <<script, days, hlData, endInclusive, bfxData>>

-----------------------------------------------------------------------------
(* Scales of the model *)

\* ticks in one hour (floor-to-hour bucket width)
HourTicks == 2
\* ticks in one day (timedelta(days=1))
DayTicks == 3
\* ticks in one request window (timedelta(hours=hours_per_request))
WindowTicks == 2
\* largest value of the days input
MaxDays == 2
\* the instant end_time is computed as
EndTime == 24
\* the page size of the Bitfinex request ("limit")
PageLimit == 2
\* cap on the rows the cursor loop may accumulate
MaxRows == 6
\* UTC offset of Asia/Singapore in hours
SgtOffsetHours == 8

-----------------------------------------------------------------------------
(* Helpers *)

Min(a, b) == IF a <= b THEN a ELSE b

Last(s) == s[Len(s)]

RECURSIVE SortInts(_)
\* the integers of S as a sequence in ascending order
SortInts(S) ==
    IF S = {} THEN <<>>
    ELSE LET m == CHOOSE x \in S : \A y \in S : x <= y
         IN <<m>> \o SortInts(S \ {m})

RECURSIVE SeqSum(_)
SeqSum(s) == IF s = <<>> THEN 0 ELSE s[1] + SeqSum(Tail(s))

\* the rows of s whose column col is not null
Present(s, col) == SelectSeq(s, LAMBDA r : r[col] # <<>>)

-----------------------------------------------------------------------------
(* Timestamps *)

TzOffset(tz) == IF tz = "Asia/Singapore" THEN SgtOffsetHours * HourTicks ELSE 0

\* pd.to_datetime(ms, unit='ms'): a naive timestamp reading UTC wall-clock
ToDatetimeMs(ms) == [wall |-> ms, tz |-> "naive"]

\* pd.to_datetime(x, utc=True)
ToDatetimeUtc(instant) == [wall |-> instant, tz |-> "UTC"]

\* .dt.tz_localize('UTC') of a naive timestamp
TzLocalizeUTC(ts) == [wall |-> ts.wall, tz |-> "UTC"]

\* .dt.tz_convert('Asia/Singapore') of an aware timestamp: same instant
TzConvertSGT(ts) ==
    [wall |-> ts.wall - TzOffset(ts.tz) + TzOffset("Asia/Singapore"),
     tz |-> "Asia/Singapore"]

\* .dt.tz_localize(None): drops the zone and keeps the local wall-clock reading
TzLocalizeNone(ts) == [wall |-> ts.wall, tz |-> "naive"]

\* the absolute instant an aware timestamp denotes
InstantOf(ts) == ts.wall - TzOffset(ts.tz)

-----------------------------------------------------------------------------
(* Series Normalizer *)

\* pd.to_numeric(x, errors='coerce') on the strings the server may send
ToNumeric(str) ==
    CASE str = "1" -> <<1>>
      [] str = "2" -> <<2>>
      [] str = "-1" -> <<-1>>
      [] OTHER -> <<>>

\* fundingRate * 24 * 365 * 100, NaN propagating
AnnualizeHourly(rate) == IF rate = <<>> THEN <<>> ELSE <<rate[1] * 24 * 365 * 100>>

\* End Funding Rate * 3 * 365 * 100, NaN propagating
AnnualizeEightHourly(rate) == IF rate = <<>> THEN <<>> ELSE <<rate[1] * 3 * 365 * 100>>

\* batch_df of one response: time parsed, rate coerced, annualized rate added
BatchDf(data) ==
    [i \in 1..Len(data) |->
        [time |-> ToDatetimeMs(data[i].time),
         fundingRate |-> ToNumeric(data[i].fundingRate),
         annualizedFundingRate |-> AnnualizeHourly(ToNumeric(data[i].fundingRate))]]

\* convert_to_gmt8(df, 'time') on a frame that has the column
ConvertToGmt8Time(df) ==
    [i \in 1..Len(df) |-> [df[i] EXCEPT !.time = TzConvertSGT(TzLocalizeUTC(df[i].time))]]

-----------------------------------------------------------------------------
(* Window-paginated fetcher: fetch_hyperliquid_funding *)

\* records the Hyperliquid server may hold: {coin, fundingRate, time}
HLCandidates ==
    { [time |-> EndTime - 6, fundingRate |-> "1"],
      [time |-> EndTime - 4, fundingRate |-> "2"],
      [time |-> EndTime - 3, fundingRate |-> "x"],
      [time |-> EndTime - 1, fundingRate |-> "-1"],
      [time |-> EndTime,     fundingRate |-> "1"] }

end_time == EndTime

StartTimeOf(d) == end_time - d * DayTicks

\* the server's answer to {type: fundingHistory, startTime: s, endTime: e}:
\* the records of the range, oldest first.  The client does not decide whether
\* a record stamped exactly endTime belongs to the range: the server does.
HLServer(s, e) ==
    LET hit == {r \in hlData : s <= r.time /\ (r.time < e \/ (endInclusive /\ r.time = e))}
        times == SortInts({r.time : r \in hit})
    IN [i \in 1..Len(times) |-> CHOOSE r \in hit : r.time = times[i]]

HTTPOutcomes == {"ok", "http_error", "transport_error"}

\* one pass of the while body (lines 40-65 / 25-45)
HLRequest(status) ==
    /\ pc = "hl_loop"
    /\ current_start_time < end_time
    /\ LET current_end_time == Min(current_start_time + WindowTicks, end_time)
           data == HLServer(current_start_time, current_end_time)
           req == [s |-> current_start_time, e |-> current_end_time, status |-> status]
       IN /\ hlReqs' = Append(hlReqs, req)
          /\ CASE status = "transport_error" ->
                    \* requests.post raises; nothing catches it
                    /\ pc' = "raised"
                    /\ err' = <<"ConnectionError", "fetch_hyperliquid_funding">>
                    /\ UNCHANGED <<current_start_time, final_df>>
               [] status = "http_error" ->
                    \* else branch: print and break
                    /\ pc' = "hl_post"
                    /\ UNCHANGED <<err, current_start_time, final_df>>
               [] status = "ok" /\ data = <<>> ->
                    \* pd.DataFrame([]) has no 'time' column: batch_df['time'] raises
                    /\ pc' = "raised"
                    /\ err' = <<"KeyError", "fetch_hyperliquid_funding">>
                    /\ UNCHANGED <<current_start_time, final_df>>
               [] OTHER ->
                    /\ final_df' = final_df \o BatchDf(data)
                    /\ current_start_time' = current_end_time
                    /\ UNCHANGED <<pc, err>>
    /\ UNCHANGED <<envVars, hyperliquid_df, bfxVars, bitfinex_df, aaveData, usdc_df, weth_df,
                   merged_df, params, display>>

\* the while condition is false: fall out of the loop
HLLoopExit ==
    /\ pc = "hl_loop"
    /\ ~(current_start_time < end_time)
    /\ pc' = "hl_post"
    /\ UNCHANGED <<err, envVars, hlVars, hyperliquid_df, bfxVars, bitfinex_df,
                   aaveData, usdc_df, weth_df, merged_df, params, display>>

\* after the loop: aave returns final_df; dash converts the 'time' column first
HLReturn ==
    /\ pc = "hl_post"
    /\ IF script = "aave"
       THEN /\ hyperliquid_df' = final_df
            /\ pc' = "aave_fetch"
            /\ UNCHANGED err
       ELSE IF final_df = <<>>
            THEN \* pd.DataFrame() has no columns: df['time'] raises
                 /\ pc' = "raised"
                 /\ err' = <<"KeyError", "fetch_hyperliquid_funding">>
                 /\ UNCHANGED hyperliquid_df
            ELSE /\ hyperliquid_df' = ConvertToGmt8Time(final_df)
                 /\ pc' = "bfx_loop"
                 /\ UNCHANGED err
    /\ UNCHANGED <<envVars, hlVars, bfxVars, bitfinex_df, aaveData, usdc_df, weth_df,
                   merged_df, params, display>>

-----------------------------------------------------------------------------
(* Cursor-paginated fetcher: fetch_bitfinex_funding *)

\* rows the Bitfinex server may hold: [MTS, ..., CURRENT_FUNDING, ...]; a JSON
\* null in the CURRENT_FUNDING position is <<>>
BfxCandidates ==
    { [MTS |-> EndTime - 5, CURRENT_FUNDING |-> <<3>>],
      [MTS |-> EndTime - 4, CURRENT_FUNDING |-> <<>>],
      [MTS |-> EndTime - 3, CURRENT_FUNDING |-> <<5>>],
      [MTS |-> EndTime - 2, CURRENT_FUNDING |-> <<>>],
      [MTS |-> EndTime,     CURRENT_FUNDING |-> <<7>>] }

\* the server's answer to ?start&end&sort=1&limit: the rows of [start, end],
\* oldest first, at most limit of them
BfxServer(start, end, limit) ==
    LET hit == {r \in bfxData : start <= r.MTS /\ r.MTS <= end}
        times == SortInts({r.MTS : r \in hit})
        n == Min(Len(times), limit)
    IN [i \in 1..n |-> CHOOSE r \in hit : r.MTS = times[i]]

\* the cursor left on the last returned sample
NextCursorStuck(data) == Last(data).MTS

\* start_time = data[-1][0] + 1
NextCursor(data) == Last(data).MTS + 1

\* one pass of the while True body (lines 58-72); MaxRows caps the accumulator
BfxRequest(status) ==
    /\ pc = "bfx_loop"
    /\ Len(all_data) < MaxRows
    /\ LET data == BfxServer(start_time, end_time, PageLimit)
           got == status = "ok" /\ data # <<>>
           req == [start |-> start_time, end |-> end_time, status |-> status,
                   n |-> IF got THEN Len(data) ELSE 0,
                   last |-> IF got THEN Last(data).MTS ELSE start_time]
       IN /\ bfxReqs' = Append(bfxReqs, req)
          /\ CASE status = "transport_error" ->
                    \* requests.get raises; nothing catches it
                    /\ pc' = "raised"
                    /\ err' = <<"ConnectionError", "fetch_bitfinex_funding">>
                    /\ UNCHANGED <<start_time, all_data>>
               [] status = "http_error" ->
                    /\ pc' = "bfx_post"
                    /\ UNCHANGED <<err, start_time, all_data>>
               [] status = "ok" /\ data = <<>> ->
                    \* if not data: break
                    /\ pc' = "bfx_post"
                    /\ UNCHANGED <<err, start_time, all_data>>
               [] OTHER ->
                    /\ all_data' = all_data \o data
                    /\ start_time' = NextCursor(data)
                    /\ UNCHANGED <<pc, err>>
    /\ UNCHANGED <<envVars, hlVars, hyperliquid_df, bitfinex_df, aaveData, usdc_df, weth_df,
                   merged_df, params, display>>

-----------------------------------------------------------------------------
(* Hourly Bucketizer: the tail of fetch_bitfinex_funding *)

\* row.replace(minute=0, second=0, microsecond=0)
FloorToHour(ts) == [ts EXCEPT !.wall = ts.wall - (ts.wall % HourTicks)]

\* df after lines 74-87: MTS parsed, Hour added
BfxFrame(rows) ==
    [i \in 1..Len(rows) |->
        [MTS |-> ToDatetimeMs(rows[i].MTS),
         CURRENT_FUNDING |-> rows[i].CURRENT_FUNDING,
         Hour |-> FloorToHour(ToDatetimeMs(rows[i].MTS))]]

\* GroupBy 'first' of a column: the first non-null entry of the group, in frame
\* order (NaN when every entry is null)
GroupFirst(g, col) ==
    LET nn == Present(g, col) IN IF nn = <<>> THEN <<>> ELSE nn[1][col]

\* GroupBy 'last' of a column: the last non-null entry of the group
GroupLast(g, col) ==
    LET nn == Present(g, col) IN IF nn = <<>> THEN <<>> ELSE Last(nn)[col]

\* lines 88-102: one row per observed Hour, keys ascending, 'Hour Interval'
\* converted to GMT+8.  MTS is never null, so its first and last non-null
\* entries are those of the group's first and last rows.  No rows give a frame
\* with the columns and no rows.
Bucketize(rows) ==
    LET df == BfxFrame(rows)
        hours == SortInts({df[i].Hour.wall : i \in 1..Len(df)})
        group(h) == SelectSeq(df, LAMBDA r : r.Hour.wall = h)
    IN [k \in 1..Len(hours) |->
          LET g == group(hours[k]) IN
          [Hour_Interval |-> TzConvertSGT(TzLocalizeUTC([wall |-> hours[k], tz |-> "naive"])),
           Interval_Start_Time |-> g[1].MTS,
           Start_Funding_Rate |-> GroupFirst(g, "CURRENT_FUNDING"),
           Interval_End_Time |-> Last(g).MTS,
           End_Funding_Rate |-> GroupLast(g, "CURRENT_FUNDING"),
           Annualized_Funding_Rate |-> AnnualizeEightHourly(GroupLast(g, "CURRENT_FUNDING"))]]

\* lines 74-103
BfxReturn ==
    /\ pc = "bfx_post"
    /\ bitfinex_df' = Bucketize(all_data)
    /\ pc' = "dash_main"
    /\ UNCHANGED <<err, envVars, hlVars, hyperliquid_df, bfxVars, aaveData, usdc_df, weth_df,
                   merged_df, params, display>>

-----------------------------------------------------------------------------
(* As-of joins *)

\* how pandas orders two merge keys of one dtype: by instant when tagged, by
\* wall-clock reading when naive
KeyOf(ts) == IF ts.tz = "naive" THEN ts.wall ELSE InstantOf(ts)

\* index of the last right row whose key is <= k, 0 when none
BackwardIdx(k, right, rkey) ==
    LET ok == {j \in 1..Len(right) : KeyOf(right[j][rkey]) <= k}
    IN IF ok = {} THEN 0 ELSE CHOOSE j \in ok : \A i \in ok : i <= j

\* index of the first right row whose key is >= k, 0 when none
ForwardIdx(k, right, rkey) ==
    LET ok == {j \in 1..Len(right) : KeyOf(right[j][rkey]) >= k}
    IN IF ok = {} THEN 0 ELSE CHOOSE j \in ok : \A i \in ok : j <= i

\* direction='nearest': the closer of the two, the backward one on a tie
NearestIdx(k, right, rkey) ==
    LET b == BackwardIdx(k, right, rkey)
        f == ForwardIdx(k, right, rkey)
    IN IF b # 0 /\ f # 0
       THEN IF k - KeyOf(right[b][rkey]) <= KeyOf(right[f][rkey]) - k THEN b ELSE f
       ELSE IF b # 0 THEN b ELSE f

IsSorted(df, key) ==
    \A i \in 1..(Len(df) - 1) : KeyOf(df[i][key]) <= KeyOf(df[i + 1][key])

-----------------------------------------------------------------------------
(* dashboard.py main: averages and the funding-difference join *)

\* Series.mean(): the mean of the non-null entries as [sum, n], NaN when none
Mean(df, col) ==
    LET nn == Present(df, col)
    IN IF nn = <<>> THEN <<>>
       ELSE <<[sum |-> SeqSum([i \in 1..Len(nn) |-> nn[i][col][1]]), n |-> Len(nn)]>>

\* line 166: NaN when either side is
Difference(a, b) == IF a = <<>> \/ b = <<>> THEN <<>> ELSE <<a[1] - b[1]>>

\* lines 164-166
CombinedDf(left, right) ==
    [i \in 1..Len(left) |->
        LET j == NearestIdx(KeyOf(left[i].time), right, "Hour_Interval")
            rate == IF j = 0 THEN <<>> ELSE right[j].Annualized_Funding_Rate
        IN [time |-> left[i].time,
            annualizedFundingRate |-> left[i].annualizedFundingRate,
            Hour_Interval |-> IF j = 0 THEN <<>> ELSE <<right[j].Hour_Interval>>,
            Annualized_Funding_Rate |-> rate,
            Funding_Rate_Difference |-> Difference(left[i].annualizedFundingRate, rate)]]

\* lines 120-190
DashMain ==
    /\ pc = "dash_main"
    /\ IF hyperliquid_df # <<>> /\ bitfinex_df # <<>>
       THEN IF ~IsSorted(hyperliquid_df, "time")
            THEN \* merge_asof: "left keys must be sorted"
                 /\ pc' = "raised"
                 /\ err' = <<"ValueError", "main">>
                 /\ UNCHANGED <<merged_df, params, display>>
            ELSE /\ merged_df' = CombinedDf(hyperliquid_df, bitfinex_df)
                 /\ display' = [state |-> "stats",
                                hyperliquid_avg |-> Mean(hyperliquid_df, "annualizedFundingRate"),
                                bitfinex_avg |-> Mean(bitfinex_df, "Annualized_Funding_Rate")]
                 /\ pc' = "done"
                 /\ UNCHANGED err
       ELSE /\ display' = [state |-> "no_data"]
            /\ pc' = "done"
            /\ UNCHANGED <<err, merged_df>>
    /\ UNCHANGED <<envVars, hlVars, hyperliquid_df, bfxVars, bitfinex_df, aaveData, usdc_df,
                   weth_df, params>>

-----------------------------------------------------------------------------
(* aave_hl_dashboard.py: fetch_aave_data, merge_data, metrics, statistics *)

\* records the lending-yield server may hold for the usdc-v3 pool
UsdcCandidates ==
    { [timestamp |-> EndTime - 20, apyBase |-> <<1>>, apyBaseBorrow |-> <<6>>],
      [timestamp |-> EndTime - 18, apyBase |-> <<1>>, apyBaseBorrow |-> <<>>],
      [timestamp |-> EndTime - 5,  apyBase |-> <<1>>, apyBaseBorrow |-> <<4>>] }

\* records the lending-yield server may hold for the weth-v3 pool
WethCandidates ==
    { [timestamp |-> EndTime - 20, apyBase |-> <<3>>, apyBaseBorrow |-> <<2>>],
      [timestamp |-> EndTime - 5,  apyBase |-> <<5>>, apyBaseBorrow |-> <<2>>] }

\* create_df: the 'data' list as a frame, timestamps parsed as UTC and converted
\* to Asia/Singapore
create_df(data) ==
    LET times == SortInts({r.timestamp : r \in data})
    IN [i \in 1..Len(times) |->
          LET r == CHOOSE x \in data : x.timestamp = times[i]
          IN [r EXCEPT !.timestamp = TzConvertSGT(ToDatetimeUtc(r.timestamp))]]

\* fetch_aave_data, both GETs answered with a 'data' list
FetchAaveOk(usdc, weth) ==
    /\ pc = "aave_fetch"
    /\ aaveData' = [usdc |-> usdc, weth |-> weth]
    /\ IF usdc = {} \/ weth = {}
       THEN \* pd.DataFrame([]) has no 'timestamp' column
            /\ pc' = "raised"
            /\ err' = <<"KeyError", "create_df">>
            /\ UNCHANGED <<usdc_df, weth_df>>
       ELSE /\ usdc_df' = create_df(usdc)
            /\ weth_df' = create_df(weth)
            /\ pc' = "merge_data"
            /\ UNCHANGED err
    /\ UNCHANGED <<envVars, hlVars, hyperliquid_df, bfxVars, bitfinex_df, merged_df,
                   params, display>>

\* fetch_aave_data, a GET failing: create_df reads .json()['data'] unguarded
FetchAaveFail(status) ==
    /\ pc = "aave_fetch"
    /\ status # "ok"
    /\ pc' = "raised"
    /\ err' = <<IF status = "transport_error" THEN "ConnectionError" ELSE "KeyError",
                "create_df">>
    /\ UNCHANGED <<envVars, hlVars, hyperliquid_df, bfxVars, bitfinex_df, usdc_df,
                   weth_df, aaveData, merged_df, params, display>>

\* df.sort_values(col): rows in ascending key order, equal keys in frame order
SortValues(df, key) ==
    LET K(i) == KeyOf(df[i][key])
        rank(i) == Cardinality({j \in 1..Len(df) : K(j) < K(i) \/ (K(j) = K(i) /\ j < i)}) + 1
    IN [p \in 1..Len(df) |-> df[CHOOSE i \in 1..Len(df) : rank(i) = p]]

\* lines 72-73
DropZone(df) ==
    [i \in 1..Len(df) |-> [df[i] EXCEPT !.timestamp = TzLocalizeNone(df[i].timestamp)]]

\* lines 76-85: both backward joins on the sorted funding frame, renamed
MergedDf(hl, usdc, weth) ==
    LET left == SortValues(hl, "time")
        u == SortValues(usdc, "timestamp")
        w == SortValues(weth, "timestamp")
    IN [i \in 1..Len(left) |->
          LET ju == BackwardIdx(KeyOf(left[i].time), u, "timestamp")
              jw == BackwardIdx(KeyOf(left[i].time), w, "timestamp")
          IN [time |-> left[i].time,
              fundingRate |-> left[i].fundingRate,
              annualizedFundingRate |-> left[i].annualizedFundingRate,
              usdc_borrow_rate |-> IF ju = 0 THEN <<>> ELSE u[ju].apyBaseBorrow,
              weth_lend_rate |-> IF jw = 0 THEN <<>> ELSE w[jw].apyBase]]

\* merge_data (lines 70-87)
merge_data ==
    /\ pc = "merge_data"
    /\ usdc_df' = DropZone(usdc_df)
    /\ weth_df' = DropZone(weth_df)
    /\ IF hyperliquid_df = <<>>
       THEN \* pd.DataFrame() has no columns: sort_values('time') raises
            /\ pc' = "raised"
            /\ err' = <<"KeyError", "merge_data">>
            /\ UNCHANGED merged_df
       ELSE /\ merged_df' = MergedDf(hyperliquid_df, usdc_df', weth_df')
            /\ pc' = "derive"
            /\ UNCHANGED err
    /\ UNCHANGED <<envVars, hlVars, hyperliquid_df, bfxVars, bitfinex_df, aaveData,
                   params, display>>

\* Leverage is counted in halves and LTV in quarters; every derived rate is
\* kept in eighths of a percent, so the arithmetic below is exact.
Leverages == {2, 4}
Ltvs == {0, 2}

\* usdc_borrow_rate * leverage * ltv
AdjustedBorrow(b, p) == IF b = <<>> THEN <<>> ELSE <<b[1] * p.leverage * p.ltv>>

\* weth_lend_rate * leverage, annualizedFundingRate * leverage
TimesLeverage(x, p) == IF x = <<>> THEN <<>> ELSE <<x[1] * p.leverage * 4>>

\* annualizedFundingRate + adjusted_weth_lend_rate - adjusted_usdc_borrow_rate
ArbReturn(f, l, b) ==
    IF f = <<>> \/ l = <<>> \/ b = <<>> THEN <<>> ELSE <<f[1] + l[1] - b[1]>>

\* lines 114-119 on one row
DeriveRow(r, p) ==
    LET ab == AdjustedBorrow(r.usdc_borrow_rate, p)
        al == TimesLeverage(r.weth_lend_rate, p)
        af == TimesLeverage(r.annualizedFundingRate, p)
    IN [time |-> r.time,
        fundingRate |-> r.fundingRate,
        usdc_borrow_rate |-> r.usdc_borrow_rate,
        weth_lend_rate |-> r.weth_lend_rate,
        adjusted_usdc_borrow_rate |-> ab,
        adjusted_weth_lend_rate |-> al,
        annualizedFundingRate |-> af,
        arb_return |-> ArbReturn(af, al, ab)]

\* lines 113-119
Derive(leverage, ltv) ==
    /\ pc = "derive"
    /\ params' = [leverage |-> leverage, ltv |-> ltv]
    /\ merged_df' = [i \in 1..Len(merged_df) |-> DeriveRow(merged_df[i], params')]
    /\ pc' = "display"
    /\ UNCHANGED <<err, envVars, hlVars, hyperliquid_df, bfxVars, bitfinex_df, usdc_df,
                   weth_df, aaveData, display>>

\* what the statistics block shows for a frame
Statistics(df) ==
    IF df # <<>>
    THEN [state |-> "stats",
          arb |-> Mean(df, "arb_return"),
          hyperliquid_avg |-> Mean(df, "annualizedFundingRate"),
          adjusted_usdc_borrow_avg |-> Mean(df, "adjusted_usdc_borrow_rate"),
          adjusted_weth_lend_avg |-> Mean(df, "adjusted_weth_lend_rate")]
    ELSE [state |-> "no_data"]

\* lines 121-199
AaveDisplay ==
    /\ pc = "display"
    /\ display' = Statistics(merged_df)
    /\ pc' = "done"
    /\ UNCHANGED <<err, envVars, hlVars, hyperliquid_df, bfxVars, bitfinex_df, usdc_df,
                   weth_df, aaveData, merged_df, params>>

-----------------------------------------------------------------------------
(* Specification *)

\* days is the fetchers' parameter (the sliders pass 1 and above); the servers'
\* histories are fixed for the run
Init ==
    /\ script \in {"aave", "dash"}
    /\ pc = "hl_loop"
    /\ err = <<>>
    /\ days \in 0..MaxDays
    /\ hlData \in SUBSET HLCandidates
    /\ endInclusive \in BOOLEAN
    /\ current_start_time = StartTimeOf(days)
    /\ final_df = <<>>
    /\ hlReqs = <<>>
    /\ hyperliquid_df = <<>>
    /\ bfxData \in IF script = "dash" THEN SUBSET BfxCandidates ELSE {{}}
    /\ start_time = StartTimeOf(days)
    /\ all_data = <<>>
    /\ bfxReqs = <<>>
    /\ bitfinex_df = <<>>
    /\ aaveData = [usdc |-> {}, weth |-> {}]
    /\ usdc_df = <<>>
    /\ weth_df = <<>>
    /\ merged_df = <<>>
    /\ params = [leverage |-> 0, ltv |-> 0]
    /\ display = [state |-> "none"]

Next ==
    \/ \E status \in HTTPOutcomes : HLRequest(status)
    \/ HLLoopExit
    \/ HLReturn
    \/ \E status \in HTTPOutcomes : BfxRequest(status)
    \/ BfxReturn
    \/ DashMain
    \/ \E usdc \in SUBSET UsdcCandidates, weth \in SUBSET WethCandidates :
          FetchAaveOk(usdc, weth)
    \/ \E status \in HTTPOutcomes : FetchAaveFail(status)
    \/ merge_data
    \/ \E leverage \in Leverages, ltv \in Ltvs : Derive(leverage, ltv)
    \/ AaveDisplay

Spec == Init /\ [][Next]_vars

\* dashboard.py alone, against a Hyperliquid server that holds every candidate
\* record.  The script is one sequential thread, so a step that can be taken
\* is taken.
InitDash == Init /\ script = "dash" /\ hlData = HLCandidates /\ days >= 1

NextDash ==
    \/ \E status \in HTTPOutcomes : HLRequest(status)
    \/ HLLoopExit
    \/ HLReturn
    \/ \E status \in HTTPOutcomes : BfxRequest(status)
    \/ BfxReturn
    \/ DashMain

SpecDash == InitDash /\ [][NextDash]_vars /\ WF_vars(NextDash)

\* aave_hl_dashboard.py alone
InitAave == Init /\ script = "aave"

NextAave ==
    \/ \E status \in HTTPOutcomes : HLRequest(status)
    \/ HLLoopExit
    \/ HLReturn
    \/ \E usdc \in SUBSET UsdcCandidates, weth \in SUBSET WethCandidates :
          FetchAaveOk(usdc, weth)
    \/ \E status \in HTTPOutcomes : FetchAaveFail(status)
    \/ merge_data
    \/ \E leverage \in Leverages, ltv \in Ltvs : Derive(leverage, ltv)
    \/ AaveDisplay

SpecAave == InitAave /\ [][NextAave]_vars

-----------------------------------------------------------------------------
(* Properties *)

\* request k of the cursor loop was answered with a non-empty page
Continuing(k) == bfxReqs[k].status = "ok" /\ bfxReqs[k].n > 0

BfxCursorInv ==
    /\ \A k \in 1..(Len(bfxReqs) - 1) :
          /\ Continuing(k)
          /\ bfxReqs[k + 1].start = bfxReqs[k].last + 1
          /\ bfxReqs[k + 1].start > bfxReqs[k].start
    /\ \A i, j \in 1..Len(all_data) : i < j => all_data[i].MTS < all_data[j].MTS
    /\ \A i \in 1..Len(all_data) : all_data[i] \in bfxData
    /\ pc = "bfx_loop" => bfxReqs = <<>> \/ Continuing(Len(bfxReqs))
    /\ pc \in {"bfx_post", "dash_main", "done"} =>
          /\ bfxReqs # <<>>
          /\ ~Continuing(Len(bfxReqs))
          /\ Last(bfxReqs).status # "transport_error"

\* C10: in fetch_bitfinex_funding, after every successful non-empty page the
\* next request starts exactly one tick past the last returned sample, so the
\* cursor strictly increases and no sample is appended twice; the loop stops
\* exactly on the first empty page or the first non-success status, and it
\* terminates.
C10_CursorPagination ==
    /\ []BfxCursorInv
    /\ (pc = "bfx_loop") ~> (pc # "bfx_loop")

\* C10 witness: two non-empty pages were fetched, each next request starting one
\* past the previous page's last sample, and the loop ended on an empty page
C10_Witness ==
    /\ pc = "bfx_post"
    /\ Len(bfxReqs) = 3
    /\ Continuing(1) /\ Continuing(2)
    /\ bfxReqs[3].status = "ok" /\ bfxReqs[3].n = 0
    /\ bfxReqs[2].start = all_data[bfxReqs[1].n].MTS + 1
    /\ Len(all_data) = bfxReqs[1].n + bfxReqs[2].n


\* an uncaught exception left function f
RaisedIn(f) == pc = "raised" /\ err[2] = f

\* fetch_hyperliquid_funding has returned to its caller
HLReturned == pc \notin {"hl_loop", "hl_post"} /\ ~RaisedIn("fetch_hyperliquid_funding")

\* fetch_bitfinex_funding has returned to its caller
BfxReturned == pc \in {"dash_main", "done"} \/ RaisedIn("main")

\* the instants of the samples the server sent for requests 1..k, in order
RECURSIVE Accumulated(_)
Accumulated(k) ==
    IF k = 0 THEN <<>>
    ELSE Accumulated(k - 1) \o
         LET d == HLServer(hlReqs[k].s, hlReqs[k].e) IN [i \in 1..Len(d) |-> d[i].time]

\* the instants of the rows of a funding frame
Instants(df) == [i \in 1..Len(df) |-> KeyOf(df[i].time)]

\* C1: when the request for window k fails (HTTP status or transport error) the
\* loop stops, no further request is issued, and the fetcher returns exactly the
\* samples of windows 1..k-1 without raising.
C1_FailedWindowReturnsPartial ==
    \A k \in 1..Len(hlReqs) :
        hlReqs[k].status # "ok" =>
            /\ k = Len(hlReqs)
            /\ ~RaisedIn("fetch_hyperliquid_funding")
            /\ HLReturned => Instants(hyperliquid_df) = Accumulated(k - 1)

\* C2: when the endpoint answers the very first request with a failure, each
\* fetcher returns an empty Series and does not end in an error, its post-loop
\* steps included.
C2_FirstCallFailureGivesEmpty ==
    /\ (hlReqs # <<>> /\ hlReqs[1].status = "http_error") =>
          /\ ~RaisedIn("fetch_hyperliquid_funding")
          /\ HLReturned => hyperliquid_df = <<>>
    /\ (bfxReqs # <<>> /\ bfxReqs[1].status = "http_error") =>
          /\ ~RaisedIn("fetch_bitfinex_funding")
          /\ BfxReturned => bitfinex_df = <<>>

\* C5: for start < end the returned Series has every timestamp in [start, end),
\* is in non-decreasing order and holds no timestamp twice.
C5_ReturnedSeriesInRangeNoDuplicates ==
    (days >= 1 /\ HLReturned) =>
        LET t == Instants(hyperliquid_df) IN
        /\ \A i \in 1..Len(t) : StartTimeOf(days) <= t[i] /\ t[i] < end_time
        /\ \A i \in 1..(Len(t) - 1) : t[i] <= t[i + 1]
        /\ \A i, j \in 1..Len(t) : i # j => t[i] # t[j]

Ceil(a, b) == (a + b - 1) \div b

AllOk == \A k \in 1..Len(hlReqs) : hlReqs[k].status = "ok"

\* C6: the requested windows are consecutive, each [cursor, min(cursor +
\* max_window, end)), starting at start; with every request succeeding the loop
\* ends after ceil((end - start) / max_window) requests; with end <= start no
\* request is issued and the result is an empty Series, not an error.
C6_ConsecutiveWindows ==
    /\ \A k \in 1..Len(hlReqs) :
          /\ hlReqs[k].s = IF k = 1 THEN StartTimeOf(days) ELSE hlReqs[k - 1].e
          /\ hlReqs[k].e = Min(hlReqs[k].s + WindowTicks, end_time)
          /\ hlReqs[k].s < hlReqs[k].e
    /\ AllOk => ~RaisedIn("fetch_hyperliquid_funding")
    /\ (AllOk /\ HLReturned) => Len(hlReqs) = Ceil(days * DayTicks, WindowTicks)
    /\ (days = 0 /\ pc # "hl_loop") => hlReqs = <<>>
    /\ (days = 0 /\ HLReturned) => hyperliquid_df = <<>>

\* the samples of all_data that fall in the hour starting at h
InHour(h) == {r \in {all_data[i] : i \in 1..Len(all_data)} : r.MTS - (r.MTS % HourTicks) = h}

\* C7: one bucket per hour that has a sample and none for the others; first
\* time and value both come from the sample of least timestamp in the hour, last
\* time and value from the one of greatest timestamp, also when that sample's
\* funding value is missing; hour_start <= first_time <= last_time < hour_start + 1h.
C7_BucketFirstLastFromSameSample ==
    BfxReturned =>
        /\ {InstantOf(bitfinex_df[k].Hour_Interval) : k \in 1..Len(bitfinex_df)}
             = {r.MTS - (r.MTS % HourTicks) : r \in {all_data[i] : i \in 1..Len(all_data)}}
        /\ \A j, k \in 1..Len(bitfinex_df) :
             j # k => bitfinex_df[j].Hour_Interval # bitfinex_df[k].Hour_Interval
        /\ \A k \in 1..Len(bitfinex_df) :
             LET b == bitfinex_df[k]
                 h == InstantOf(b.Hour_Interval)
                 lo == CHOOSE r \in InHour(h) : \A q \in InHour(h) : r.MTS <= q.MTS
                 hi == CHOOSE r \in InHour(h) : \A q \in InHour(h) : q.MTS <= r.MTS
             IN /\ b.Interval_Start_Time.wall = lo.MTS
                /\ b.Start_Funding_Rate = lo.CURRENT_FUNDING
                /\ b.Interval_End_Time.wall = hi.MTS
                /\ b.End_Funding_Rate = hi.CURRENT_FUNDING
                /\ h <= b.Interval_Start_Time.wall
                /\ b.Interval_Start_Time.wall <= b.Interval_End_Time.wall
                /\ b.Interval_End_Time.wall < h + HourTicks

\* merge_data has returned its frame
Merged == script = "aave" /\ pc \in {"derive", "display", "done"}

\* the funding-difference join has run
Combined == script = "dash" /\ pc = "done" /\ display.state = "stats"

\* the value a companion holding samples S gives at instant t under an as-of
\* match: that of the sample of greatest instant <= t, absent when there is none
AsOf(S, t, col) ==
    LET ok == {r \in S : r.timestamp <= t}
    IN IF ok = {} THEN <<>>
       ELSE (CHOOSE r \in ok : \A q \in ok : q.timestamp <= r.timestamp)[col]

\* the hour buckets as samples stamped with the instant of their hour
BucketSamples ==
    {[timestamp |-> InstantOf(bitfinex_df[k].Hour_Interval),
      value |-> bitfinex_df[k].Annualized_Funding_Rate] : k \in 1..Len(bitfinex_df)}

\* C3: every join gives one row per reference timestamp, and in each row the
\* companion value is that of the companion sample of greatest instant <= the
\* reference instant, absent when there is none; a later sample is never used.
C3_AsOfBackwardEveryJoin ==
    /\ Merged =>
          /\ Len(merged_df) = Len(hyperliquid_df)
          /\ \A i \in 1..Len(merged_df) :
               LET t == merged_df[i].time.wall
               IN /\ merged_df[i].usdc_borrow_rate = AsOf(aaveData.usdc, t, "apyBaseBorrow")
                  /\ merged_df[i].weth_lend_rate = AsOf(aaveData.weth, t, "apyBase")
    /\ Combined =>
          /\ Len(merged_df) = Len(hyperliquid_df)
          /\ \A i \in 1..Len(merged_df) :
               /\ merged_df[i].Annualized_Funding_Rate
                    = AsOf(BucketSamples, InstantOf(merged_df[i].time), "value")
               /\ merged_df[i].Hour_Interval # <<>> =>
                    InstantOf(merged_df[i].Hour_Interval[1]) <= InstantOf(merged_df[i].time)

\* the reading a reference-series timestamp has for instant t in each script
ReferenceReading(t) ==
    IF script = "aave" THEN ToDatetimeMs(t) ELSE TzConvertSGT(TzLocalizeUTC(ToDatetimeMs(t)))

\* C4: when a join runs, the reference series and every companion series carry
\* their timestamps in one representation: an instant has the same timestamp
\* value in each of them.
C4_SameRepresentationAtJoin ==
    /\ Merged =>
          LET ut == SortInts({r.timestamp : r \in aaveData.usdc})
              wt == SortInts({r.timestamp : r \in aaveData.weth})
          IN /\ \A k \in 1..Len(usdc_df) : usdc_df[k].timestamp = ReferenceReading(ut[k])
             /\ \A k \in 1..Len(weth_df) : weth_df[k].timestamp = ReferenceReading(wt[k])
    /\ Combined =>
          \A k \in 1..Len(bitfinex_df) :
              bitfinex_df[k].Hour_Interval
                = ReferenceReading(InstantOf(bitfinex_df[k].Hour_Interval))

\* the statistics block showed an average for a borrow or lend column that
\* holds no value in any row
ShowsAverageOfNothing ==
    /\ display.state = "stats"
    /\ \/ display.adjusted_usdc_borrow_avg = <<>>
       \/ display.adjusted_weth_lend_avg = <<>>

\* C8: a row with an absent borrow or lend rate has every derived field that
\* depends on it absent; each displayed average is the mean of the present
\* values only; a metric with no present value in any row is shown as "no
\* data", not as an average.
C8_AbsencePropagatesAndNoDataShown ==
    (script = "aave" /\ pc \in {"display", "done"}) =>
        /\ \A i \in 1..Len(merged_df) :
             LET r == merged_df[i]
             IN /\ r.usdc_borrow_rate = <<>> =>
                     r.adjusted_usdc_borrow_rate = <<>> /\ r.arb_return = <<>>
                /\ r.weth_lend_rate = <<>> =>
                     r.adjusted_weth_lend_rate = <<>> /\ r.arb_return = <<>>
        /\ pc = "done" =>
             /\ display.state = "stats" =>
                  \A i \in 1..Len(merged_df) :
                      merged_df[i].arb_return # <<>> => display.arb # <<>>
             /\ ~ShowsAverageOfNothing

\* a fetcher came back empty-handed: its first request was answered with a
\* failure status or with an empty page
FetcherYieldedEmpty ==
    \/ hlReqs # <<>> /\ hlReqs[1].status = "http_error"
    \/ bfxReqs # <<>> /\ Len(bfxReqs) = 1 /\ ~Continuing(1)
          /\ bfxReqs[1].status # "transport_error" /\ pc # "bfx_loop"

\* C9: whenever a fetcher yields an empty Series, every later stage tolerates
\* it: neither the fetcher's own post-loop steps, nor merge_data, nor the main
\* block raises, and the run ends showing "No data available to display".
C9_EmptySeriesEndsInNoData ==
    FetcherYieldedEmpty =>
        /\ ~RaisedIn("fetch_hyperliquid_funding")
        /\ ~RaisedIn("fetch_bitfinex_funding")
        /\ ~RaisedIn("merge_data")
        /\ ~RaisedIn("main")
        /\ pc = "done" => display.state = "no_data"
====
